---- MODULE Spec2Model ----
(***************************************************************************)
(* Update processing of the ofensivaria Telegram bot: the polling process  *)
(* of ofensivaria/poll.py driving TelegramBot (ofensivaria/bot.py) and the *)
(* Command machinery of ofensivaria/commands.py.                           *)
(*                                                                         *)
(* A Python str is a sequence of one-character strings; "NBSP" stands for  *)
(* the single character U+00A0.  An answer (text handed to the transport)  *)
(* is a sequence of string pieces whose concatenation is the text; the     *)
(* empty sequence is the empty string.  A dict is a function whose DOMAIN  *)
(* is its key set.                                                         *)
(***************************************************************************)
EXTENDS Integers, Sequences, FiniteSets, TLC

(***************************************************************************)
(* Bounds of the model.                                                    *)
(***************************************************************************)
\* number of distinct updates the platform can deliver
MaxUpdates == 3
\* largest number of decorators stacked on one handler
MaxWraps == 2

\* largest number of whitespace-separated tokens after the alias in a text
MaxTokens == 3

\* largest number of updates in one getUpdates reply
MaxBatch == 2

\* POST requests the webhook server may be serving at once
MaxCalls == 2

\* descriptors registered when matchers are studied on their own
MaxOffers == 3

(***************************************************************************)
(* Characters and strings.                                                 *)
(***************************************************************************)
UpperCase == <<"A", "B", "C", "D", "E", "F", "G", "H", "I", "J", "K", "L", "M",
               "N", "O", "P", "Q", "R", "S", "T", "U", "V", "W", "X", "Y", "Z">>

LowerCase == <<"a", "b", "c", "d", "e", "f", "g", "h", "i", "j", "k", "l", "m",
               "n", "o", "p", "q", "r", "s", "t", "u", "v", "w", "x", "y", "z">>

DigitChars == {"0", "1", "2", "3", "4", "5", "6", "7", "8", "9"}

\* \w of the re module
IsWordChar(c) ==
    \/ \E i \in DOMAIN UpperCase : UpperCase[i] = c
    \/ \E i \in DOMAIN LowerCase : LowerCase[i] = c
    \/ c \in DigitChars
    \/ c = "_"

\* \s of the re module and the separators of str.split()
IsSpace(c) == c \in {" ", "\t", "\n", "NBSP"}

\* str.lower() on one character
LowerChar(c) ==
    IF \E i \in DOMAIN UpperCase : UpperCase[i] = c
    THEN LowerCase[CHOOSE i \in DOMAIN UpperCase : UpperCase[i] = c]
    ELSE c

\* str.lower()
Lower(s) == [i \in DOMAIN s |-> LowerChar(s[i])]

\* s[a:b] with 1-based inclusive bounds
Slice(s, a, b) == IF a > b THEN <<>> ELSE SubSeq(s, a, b)

\* s[n:] after dropping the first n characters
Drop(s, n) == Slice(s, n + 1, Len(s))

\* str.endswith
EndsWith(s, suffix) ==
    /\ Len(s) >= Len(suffix)
    /\ Slice(s, Len(s) - Len(suffix) + 1, Len(s)) = suffix

\* str.startswith
StartsWith(s, prefix) ==
    /\ Len(s) >= Len(prefix)
    /\ Slice(s, 1, Len(prefix)) = prefix

\* sub in s
Contains(s, sub) ==
    \E i \in 0..(Len(s) - Len(sub)) : Slice(s, i + 1, i + Len(sub)) = sub

\* c in s
HasChar(s, c) == \E i \in DOMAIN s : s[i] = c

\* text.replace(u'\xa0', ' ')
ReplaceNbsp(s) == [i \in DOMAIN s |-> IF s[i] = "NBSP" THEN " " ELSE s[i]]

\* c.replace("/", "")
RECURSIVE RemoveSlash(_)
RemoveSlash(s) ==
    IF s = <<>> THEN <<>>
    ELSE IF Head(s) = "/" THEN RemoveSlash(Tail(s))
    ELSE <<Head(s)>> \o RemoveSlash(Tail(s))

\* c.split(' ')[0]: the characters before the first space
RECURSIVE FirstField(_)
FirstField(s) ==
    IF s = <<>> \/ Head(s) = " " THEN <<>>
    ELSE <<Head(s)>> \o FirstField(Tail(s))

\* length of the longest prefix of s made of characters satisfying IsSpace
RECURSIVE SpaceRun(_)
SpaceRun(s) ==
    IF s = <<>> \/ ~IsSpace(Head(s)) THEN 0 ELSE 1 + SpaceRun(Tail(s))

\* length of the longest prefix of s holding no whitespace
RECURSIVE TokenRun(_)
TokenRun(s) ==
    IF s = <<>> \/ IsSpace(Head(s)) THEN 0 ELSE 1 + TokenRun(Tail(s))

\* length of the longest prefix of s made of word characters
RECURSIVE WordRun(_)
WordRun(s) ==
    IF s = <<>> \/ ~IsWordChar(Head(s)) THEN 0 ELSE 1 + WordRun(Tail(s))

\* str.split(): the maximal runs of non-whitespace characters, in order
RECURSIVE Split(_)
Split(s) ==
    LET t == Drop(s, SpaceRun(s))
        n == TokenRun(t)
    IN  IF t = <<>> THEN <<>>
        ELSE <<Slice(t, 1, n)>> \o Split(Drop(t, n))

\* " ".join(tokens)
RECURSIVE JoinSpace(_)
JoinSpace(tokens) ==
    IF tokens = <<>> THEN <<>>
    ELSE IF Len(tokens) = 1 THEN tokens[1]
    ELSE tokens[1] \o <<" ">> \o JoinSpace(Tail(tokens))

\* str.strip()
RECURSIVE StripRight(_)
StripRight(s) ==
    IF s = <<>> \/ ~IsSpace(s[Len(s)]) THEN s
    ELSE StripRight(Slice(s, 1, Len(s) - 1))

Strip(s) == StripRight(Drop(s, SpaceRun(s)))

(***************************************************************************)
(* dict helpers.                                                           *)
(***************************************************************************)
\* d[k] = v on a dict
SetKey(d, k, v) == [x \in (DOMAIN d) \cup {k} |-> IF x = k THEN v ELSE d[x]]

\* k in d
HasKey(d, k) == k \in DOMAIN d

\* dict(zip(names, values)): pairs up to the shorter list, a later pair with
\* the same name replacing an earlier one
ZipDict(names, values) ==
    LET n == IF Len(names) < Len(values) THEN Len(names) ELSE Len(values)
        last(k) == CHOOSE i \in 1..n :
                      /\ names[i] = k
                      /\ \A j \in (i + 1)..n : names[j] # k
    IN  [k \in {names[i] : i \in 1..n} |-> values[last(k)]]

(***************************************************************************)
(* Handler results: False, None, str, bytes or dict.                       *)
(***************************************************************************)
PyFalse == [t |-> "False"]

PyNone == [t |-> "None"]

PyStr(rope) == [t |-> "str", v |-> rope]

PyBytes(rope) == [t |-> "bytes", v |-> rope]

PyDict(d) == [t |-> "dict", v |-> d]

\* truth value of a handler result (if r:)
Truthy(r) ==
    CASE r.t = "False" -> FALSE
      [] r.t = "None" -> FALSE
      [] r.t = "str" -> r.v # <<>>
      [] r.t = "bytes" -> r.v # <<>>
      [] r.t = "dict" -> DOMAIN r.v # {}

\* bytes.decode('utf8') of ASCII text keeps the characters
DecodeUtf8(rope) == rope

\* the decorator reply
reply(r) ==
    IF ~Truthy(r) THEN r
    ELSE CASE r.t = "dict" -> PyDict(SetKey(r.v, "needs_reply", TRUE))
           [] r.t = "str" -> PyDict([answer |-> r.v, needs_reply |-> TRUE])
           [] r.t = "bytes" ->
                PyDict([answer |-> DecodeUtf8(r.v), needs_reply |-> TRUE])
           [] OTHER -> r

\* the decorator preview
preview(r) ==
    IF ~Truthy(r) THEN r
    ELSE CASE r.t = "dict" -> PyDict(SetKey(r.v, "needs_preview", TRUE))
           [] r.t = "str" -> PyDict([answer |-> r.v, needs_preview |-> TRUE])
           [] OTHER -> r

\* the decorator markdown
markdown(r) ==
    IF ~Truthy(r) THEN r
    ELSE CASE r.t = "dict" -> PyDict(SetKey(r.v, "markdown", TRUE))
           [] r.t = "str" -> PyDict([answer |-> r.v, markdown |-> TRUE])
           [] OTHER -> r

(***************************************************************************)
(* Command: construction and the slash matcher.                            *)
(***************************************************************************)
\* key of a declared form in _commands: c.split(' ')[0].replace("/", "")
FormAlias(form) == RemoveSlash(FirstField(form))

\* key in self._commands
CommandsHas(d, key) ==
    \E i \in DOMAIN d.SLASH_COMMAND : FormAlias(d.SLASH_COMMAND[i]) = key

\* self._commands[key]: the last declared form with that key
CommandsGet(d, key) ==
    LET F == d.SLASH_COMMAND
        i == CHOOSE i \in DOMAIN F :
                /\ FormAlias(F[i]) = key
                /\ \A j \in DOMAIN F : j > i => FormAlias(F[j]) # key
    IN  F[i]

\* self._slash_args_re.findall(form), the regular expression \[(\w+)\]
RECURSIVE SlashArgs(_)
SlashArgs(form) ==
    IF form = <<>> THEN <<>>
    ELSE LET n == WordRun(Tail(form))
         IN  IF /\ Head(form) = "["
                /\ n > 0
                /\ Len(form) >= n + 2
                /\ form[n + 2] = "]"
             THEN <<Slice(form, 2, n + 1)>> \o SlashArgs(Drop(form, n + 2))
             ELSE SlashArgs(Tail(form))

\* \b between s[p] and s[p + 1]
WordBoundary(s, p) ==
    LET before == p >= 1 /\ p <= Len(s) /\ IsWordChar(s[p])
        after == p + 1 <= Len(s) /\ IsWordChar(s[p + 1])
    IN  before # after

\* (.*)?$ against the whole of s: . excludes the newline and $ also
\* matches before a final newline
DotStarEnd(s) ==
    IF \A i \in DOMAIN s : s[i] # "\n"
    THEN [ok |-> TRUE, group |-> s]
    ELSE IF s[Len(s)] = "\n" /\ \A i \in 1..(Len(s) - 1) : s[i] # "\n"
    THEN [ok |-> TRUE, group |-> Slice(s, 1, Len(s) - 1)]
    ELSE [ok |-> FALSE, group |-> <<>>]

\* \s?(.*)?$ against the rest of the text, \s? greedy
RestMatch(rest) ==
    IF rest # <<>> /\ IsSpace(rest[1]) /\ DotStarEnd(Tail(rest)).ok
    THEN DotStarEnd(Tail(rest))
    ELSE DotStarEnd(rest)

\* one alternative \bkey\b of _slash_re, case-insensitive, right after ^\/
AliasMatches(text, key) ==
    /\ Len(text) >= 1 + Len(key)
    /\ text[1] = "/"
    /\ \A i \in DOMAIN key : LowerChar(text[1 + i]) = LowerChar(key[i])
    /\ WordBoundary(text, 1)
    /\ WordBoundary(text, 1 + Len(key))
    /\ RestMatch(Drop(text, 1 + Len(key))).ok

\* self._slash_re.findall(text): the first alternative that matches
SlashFind(d, text) ==
    LET F == d.SLASH_COMMAND
        hits == {i \in DOMAIN F : AliasMatches(text, FormAlias(F[i]))}
    IN  IF hits = {} THEN [ok |-> FALSE, command |-> <<>>, args |-> <<>>]
        ELSE LET i == CHOOSE i \in hits : \A j \in hits : i <= j
                 n == Len(FormAlias(F[i]))
             IN  [ok |-> TRUE,
                  command |-> Slice(text, 2, 1 + n),
                  args |-> RestMatch(Drop(text, 1 + n)).group]

\* the message of the ValidationException raised at commands.py:128
WrongArguments(full_command) == <<"Wrong number of arguments ">> \o full_command

\* a matcher that keeps the tokens apart whatever the form declares
NoCollapse(command_args, words) == words

\* lines 124-125: one declared parameter takes all the tokens, rejoined
Collapse(command_args, words) ==
    IF Len(command_args) = 1 /\ Len(words) > 1
    THEN <<JoinSpace(words)>>
    ELSE words

\* a matcher that never checks the number of arguments
ArityNeverFails(d, command_args, args) == FALSE

\* the condition of line 127
ArityFails(d, command_args, args) ==
    /\ d.REQUIRED_PARAMS
    /\ command_args # <<>>
    /\ Len(command_args) # Len(args)

\* Command.__validate_slash_command: ret is "true", "false" or "validation"
\* (ValidationException raised); the tuple unpacked at line 113 always has
\* two groups, so the except ValueError branch never runs
validate_slash_command(d, text, message) ==
    LET found == SlashFind(d, text)
        command == Lower(found.command)
        words == Split(found.args)
        full_command == CommandsGet(d, command)
        command_args == SlashArgs(full_command)
        args == Collapse(command_args, words)
    IN  IF ~found.ok THEN [ret |-> "false", message |-> message, error |-> <<>>]
        ELSE IF ~CommandsHas(d, command)
        THEN [ret |-> "false", message |-> message, error |-> <<>>]
        ELSE IF ArityFails(d, command_args, args)
        THEN [ret |-> "validation", message |-> message,
              error |-> WrongArguments(full_command)]
        ELSE [ret |-> "true",
              message |-> SetKey(SetKey(message, "args",
                                        ZipDict(command_args, args)),
                                 "command", command),
              error |-> <<>>]

(***************************************************************************)
(* The registered descriptors.  Each is a record of the class attributes   *)
(* the Command base class reads.  No descriptor of this registry declares  *)
(* REGEX.                                                                  *)
(***************************************************************************)
Ping == [name |-> "Ping", REQUIRED_PARAMS |-> FALSE,
         SLASH_COMMAND |-> <<<<"/", "p", "i", "n", "g">>>>]

Help == [name |-> "Help", REQUIRED_PARAMS |-> FALSE,
         SLASH_COMMAND |-> <<<<"/", "h", "e", "l", "p">>>>]

MessageToGif == [name |-> "MessageToGif", REQUIRED_PARAMS |-> FALSE,
                 SLASH_COMMAND |-> <<<<"/", "t", "e", "a", "c", "h", " ", "[", "n", "a", "m", "e", "]", " ", "[", "u", "r", "l", "]">>,
                                     <<"/", "f", "o", "r", "g", "e", "t", " ", "[", "n", "a", "m", "e", "]">>,
                                     <<"/", "r", "a", "n", "d", "o", "m", "g", "i", "f">>,
                                     <<"/", "g", "i", "f", "s">>>>]

Sandstorm == [name |-> "Sandstorm", REQUIRED_PARAMS |-> FALSE,
              SLASH_COMMAND |-> <<<<"/", "s", "a", "n", "d", "s", "t", "o", "r", "m">>>>]

FlipTable == [name |-> "FlipTable", REQUIRED_PARAMS |-> FALSE,
              SLASH_COMMAND |-> <<<<"/", "f", "l", "i", "p">>>>]

ConvertCurrency == [name |-> "ConvertCurrency", REQUIRED_PARAMS |-> FALSE,
                    SLASH_COMMAND |-> <<<<"/", "c", "o", "n", "v", "e", "r", "t", " ", "[", "v", "a", "l", "u", "e", "]", " ", "[", "s", "y", "m", "b", "o", "l", "]">>>>]

SquareMeme == [name |-> "SquareMeme", REQUIRED_PARAMS |-> FALSE,
               SLASH_COMMAND |-> <<<<"/", "s", "q", "u", "a", "r", "e", " ", "[", "t", "e", "x", "t", "]">>>>]

Imgur == [name |-> "Imgur", REQUIRED_PARAMS |-> FALSE,
          SLASH_COMMAND |-> <<<<"/", "i", "m", "g", "u", "r", "i", "d", " ", "[", "c", "l", "i", "e", "n", "t", "_", "i", "d", "]">>>>]

\* REGEX is a key of the descriptors that declare one; the value stands for
\* re.compile("@[A-z0-9_-]+\s(.+?)\?+$", re.UNICODE)
MagicEightBall == [name |-> "MagicEightBall", REQUIRED_PARAMS |-> FALSE,
                   SLASH_COMMAND |-> <<<<"/", "8", "b", "a", "l", "l", " ", "[", "q", "u", "e", "s", "t", "i", "o", "n", "]">>>>,
                   REGEX |-> "mention question"]

\* A command installed by another distribution under the entry-point
\* namespace 'ofensivaria.bot.commands': a Command subclass that sets
\* REQUIRED_PARAMS = True, declares '/strict [a] [b]' and answers 'ok'.
\* None of the shipped commands sets REQUIRED_PARAMS.
StrictCommand == [name |-> "Strict", REQUIRED_PARAMS |-> TRUE,
                  SLASH_COMMAND |-> <<<<"/", "s", "t", "r", "i", "c", "t", " ", "[", "a", "]", " ", "[", "b", "]">>>>]

\* self.commands after setup, in registration order
Registry ==
    <<Ping, Help, MessageToGif, ConvertCurrency, StrictCommand, Sandstorm,
      FlipTable>>

(***************************************************************************)
(* Matcher dispatch and the handlers.                                      *)
(***************************************************************************)
\* Command.can_respond (REGEX is None for every descriptor of Registry)
\* REGEX.findall(text) of MagicEightBall: the first match of the pattern,
\* '@', one or more characters of [A-z0-9_-], one whitespace, the group
\* (one or more characters, as few as possible) and question marks up to
\* the end of the text.  "BACKSLASH" and "BACKTICK" name the two characters
\* of the range A-z that a string of this module cannot spell.
MentionQuestion(text) ==
    LET n == Len(text)
        InClass(c) == IsWordChar(c) \/ c \in {"-", "[", "BACKSLASH", "]", "^", "BACKTICK"}
        Ends(i) == {j \in (i + 2)..n :
                       /\ IsSpace(text[j])
                       /\ \A q \in (i + 1)..(j - 1) : InClass(text[q])}
        Stops(j) == {k \in (j + 1)..(n - 1) :
                        /\ \A q \in (k + 1)..n : text[q] = "?"
                        /\ \A q \in (j + 1)..k : text[q] # "\n"}
        Starts == {i \in 1..n :
                      text[i] = "@" /\ \E j \in Ends(i) : Stops(j) # {}}
        Least(S) == CHOOSE x \in S : \A y \in S : x <= y
    IN  IF Starts = {}
        THEN [ok |-> FALSE, group |-> <<>>]
        ELSE LET j == Least(Ends(Least(Starts)))
             IN  [ok |-> TRUE, group |-> Slice(text, j + 1, Least(Stops(j)))]

\* a regex matcher that records its result before it tests it
validate_regex_eager(d, text, message) ==
    LET result == MentionQuestion(text)
    IN  [ret |-> IF result.ok THEN "true" ELSE "false",
         message |-> SetKey(message, "result", result.group),
         error |-> <<>>]

validate_regex(d, text, message) ==
    LET result == MentionQuestion(text)
    IN  IF ~result.ok
        THEN [ret |-> "false", message |-> message, error |-> <<>>]
        ELSE [ret |-> "true",
              message |-> SetKey(message, "result", result.group),
              error |-> <<>>]

CommandCanRespond(d, text, message) ==
    IF HasKey(d, "REGEX")
    THEN validate_regex(d, text, message)
    ELSE IF d.SLASH_COMMAND # <<>>
    THEN validate_slash_command(d, text, message)
    ELSE [ret |-> "false", message |-> message, error |-> <<>>]

DotGif == <<".", "g", "i", "f">>

\* can_respond of the class of d
can_respond(d, text, message) ==
    IF d.name = "MessageToGif" /\ EndsWith(text, DotGif) /\ ~HasChar(text, " ")
    THEN [ret |-> "true", message |-> message, error |-> <<>>]
    \* Imgur: a message with a photo is accepted in a private chat only;
    \* one without (KeyError) goes to the matcher of Command
    ELSE IF d.name = "Imgur" /\ HasKey(message, "photo")
                             /\ HasKey(message, "chat")
                             /\ HasKey(message.chat, "type")
    THEN [ret |-> IF message.chat.type = "private" /\ Len(message.photo) > 0
                  THEN "true" ELSE "false",
          message |-> message, error |-> <<>>]
    ELSE CommandCanRespond(d, text, message)

\* a handler outcome: the value returned or an exception, with the number
\* of write commands the handler had the store execute
ReturnsAfter(r, n) == [kind |-> "value", value |-> r, writes |-> n]

Returns(r) == ReturnsAfter(r, 0)

Raises == [kind |-> "raise", writes |-> 0]

\* MessageToGif.get_gif: random.choice of the redis list of the name; None
\* when the list is empty (IndexError), the exception when redis fails
get_gif == {Returns(PyNone), Returns(PyBytes(<<"http://gif">>)), Raises}

ParamName == <<"n", "a", "m", "e">>

ParamUrl == <<"u", "r", "l">>

\* the command_<name> methods of MessageToGif called with **message['args'];
\* every exception is turned into "" by respond
GifCommand(message) ==
    LET command == message.command
        args == message.args
        empty == Returns(PyStr(<<>>))
    IN  IF ~HasKey(message, "args") THEN {empty}
        ELSE IF command = <<"t", "e", "a", "c", "h">>
        THEN IF DOMAIN args # {ParamName, ParamUrl} THEN {empty}
             ELSE IF ~EndsWith(args[ParamName], DotGif)
             THEN {Returns(PyStr(<<"gif name must end with .gif">>))}
             ELSE IF ~Contains(args[ParamUrl], <<"h", "t", "t", "p">>)
             THEN {Returns(PyStr(<<"gif is not a link">>))}
             \* sadd then lpush; an exception of either gives ""
             ELSE {ReturnsAfter(PyStr(<<"now i know about ">>
                                      \o args[ParamName]), 2),
                   empty, ReturnsAfter(PyStr(<<>>), 1)}
        ELSE IF command = <<"f", "o", "r", "g", "e", "t">>
        THEN IF DOMAIN args # {ParamName} THEN {empty}
             \* delete then srem; an exception of either gives ""
             ELSE {ReturnsAfter(PyStr(<<"forgot ">> \o args[ParamName]), 2),
                   empty, ReturnsAfter(PyStr(<<>>), 1)}
        ELSE IF command = <<"r", "a", "n", "d", "o", "m", "g", "i", "f">>
        THEN IF DOMAIN args # {} THEN {empty}
             ELSE {IF o.kind = "raise" THEN empty ELSE o : o \in get_gif}
        \* command_gifs joins the bytes redis returns with a str separator,
        \* a TypeError unless the set is empty: "" in both cases; any other
        \* command name has no command_<name> method
        ELSE {empty}

ParamValue == <<"v", "a", "l", "u", "e">>

ParamSymbol == <<"s", "y", "m", "b", "o", "l">>

\* float(s) succeeds: over the values typed here, a string of decimal digits
\* parses and one that holds another character does not
IsFloat(s) == s # <<>> /\ \A i \in DOMAIN s : s[i] \in DigitChars

\* ConvertCurrency.respond: message['args']['symbol'] is read outside any
\* try (KeyError when the text gave fewer than two tokens); the rate comes
\* from an HTTP request that may raise, answer an error, or answer the rate
ConvertRespond(message) ==
    LET args == message.args
    IN  IF ~HasKey(args, ParamSymbol) \/ ~HasKey(args, ParamValue)
        THEN {Raises}
        ELSE IF ~IsFloat(args[ParamValue])
        THEN {Returns(PyStr(<<"value must be a number">>))}
        ELSE {Raises,
              Returns(PyStr(<<"Could not get value for currency ">>
                            \o args[ParamSymbol])),
              Returns(PyStr(<<"R$">> \o args[ParamValue]))}

\* respond of the class of d, decorators applied: the possible outcomes
respond(d, text, message) ==
    CASE d.name = "Ping" -> {Returns(PyStr(<<"pong">>))}
      [] d.name = "Help" ->
            {Returns(reply(PyStr(<<"Deus ajuda quem cedo madruga">>)))}
      [] d.name = "MessageToGif" ->
            LET inner == IF HasKey(message, "command")
                         THEN GifCommand(message)
                         ELSE get_gif
            IN  {IF o.kind = "raise" THEN o
                 ELSE ReturnsAfter(preview(o.value), o.writes) :
                     o \in inner}
      [] d.name = "ConvertCurrency" -> ConvertRespond(message)
      \* TelegramBot has no send_audio: AttributeError
      [] d.name = "Sandstorm" -> {Raises}
      \* the piece "table flip" stands for the glyphs FlipTable returns, a
      \* non-empty str
      [] d.name = "FlipTable" -> {Returns(PyStr(<<"table flip">>))}
      [] d.name = "Strict" -> {Returns(PyStr(<<"ok">>))}

\* a test that takes every answer as one to send
AnswerAlways(answer) == TRUE

\* if answer: (line 198)
AnswerTruthy(answer) == answer # <<>>

\* a flag read that ignores the dict
FlagIgnored(d, key) == FALSE

\* dict.get(key, False) read as a flag
GetFlag(d, key) == IF HasKey(d, key) THEN d[key] ELSE FALSE

\* Command.__send_message up to the call of bot.send_message: "return"
\* (nothing to send), "raise" (ValueError, KeyError) or "send" with the
\* arguments of the call; an absent reply id is the empty set
send_message_call(command_response, message) ==
    LET r == command_response
        env == CASE r.t = "str" -> [answer |-> r.v]
                 [] r.t = "bytes" -> [answer |-> DecodeUtf8(r.v)]
                 [] OTHER -> r.v
        reply_id == IF GetFlag(env, "needs_reply") /\ HasKey(message, "message_id")
                    THEN {message.message_id}
                    ELSE {}
        nothing == [end |-> "return", call |-> <<>>]
        failure == [end |-> "raise", call |-> <<>>]
    IN  IF r.t = "False" THEN nothing
        ELSE IF r.t \notin {"str", "bytes", "dict"} THEN failure
        ELSE IF ~HasKey(env, "answer") THEN failure
        ELSE IF ~AnswerTruthy(env.answer) THEN nothing
        ELSE IF ~HasKey(message, "chat") THEN failure
        ELSE [end |-> "send",
              call |-> [chat_id |-> message.chat.id,
                        text |-> env.answer,
                        in_reply_to |-> reply_id,
                        preview |-> GetFlag(env, "needs_preview"),
                        markdown |-> GetFlag(env, "markdown")]]

\* a handler of ValidationException that sends nothing
validation_swallowed(error, message) == [end |-> "return", call |-> <<>>]

\* the except ValidationException branch of Command.process
on_validation(error, message) ==
    send_message_call(PyDict([answer |-> error]), message)

\* a process that runs the handler whatever the matcher answered
DeclinesNever(cr) == FALSE

\* can_respond returned False (line 210)
Declines(cr) == cr.ret = "false"

\* the text Command.process matches on, and stores back on the message
NormalizedText(message) ==
    IF HasKey(message, "text") THEN ReplaceNbsp(message.text) ELSE <<>>

\* Command.process up to the call of bot.send_message: the message as the
\* matcher leaves it, what the matcher said, whether respond ran and raised,
\* and how __send_message ends
process(d, message) ==
    LET text == NormalizedText(message)
        m1 == SetKey(message, "text", text)
        cr == can_respond(d, text, m1)
        out(m, ret, handler, s, n) ==
            [message |-> m, matcher |-> ret, handler |-> handler,
             end |-> s.end, call |-> s.call, writes |-> n]
    IN  IF Declines(cr)
        THEN {out(cr.message, "false", "none",
                  [end |-> "return", call |-> <<>>], 0)}
        ELSE IF cr.ret = "validation"
        THEN {out(cr.message, "validation", "none",
                  on_validation(cr.error, cr.message), 0)}
        ELSE {IF o.kind = "raise"
              THEN out(cr.message, "true", "raised",
                       [end |-> "raise", call |-> <<>>], o.writes)
              ELSE out(cr.message, "true", "returned",
                       send_message_call(o.value, cr.message), o.writes) :
                  o \in respond(d, text, cr.message)}

(***************************************************************************)
(* The platform: updates and their payloads.                               *)
(***************************************************************************)
\* the k-th update identifier the platform assigns
UpdateId(k) == 2 * k + 1

UpdateIds == {UpdateId(k) : k \in 1..MaxUpdates}

\* a message of a group chat with the given text
TextMessage(text) ==
    [message_id |-> 11, chat |-> [id |-> 100, type |-> "group"], text |-> text]

\* message payloads an update may carry
Messages ==
    {TextMessage(<<"/", "p", "i", "n", "g">>),
     TextMessage(<<"/", "h", "e", "l", "p">>),
     TextMessage(<<"/", "f", "l", "i", "p", ".", "g", "i", "f">>),
     TextMessage(<<"/", "p", "i", "n", "g", ".", "g", "i", "f">>),
     TextMessage(<<"/", "s", "t", "r", "i", "c", "t", " ", "x">>),
     TextMessage(<<"/", "s", "a", "n", "d", "s", "t", "o", "r", "m">>),
     TextMessage(<<"/", "c", "o", "n", "v", "e", "r", "t", " ", "1", "0">>),
     TextMessage(<<"/", "c", "o", "n", "v", "e", "r", "t", " ", "1", "0", " ", "u", "s", "d">>),
     TextMessage(<<"h", "e", "l", "l", "o">>),
     TextMessage(<<"/", "f", "o", "r", "g", "e", "t", " ", "x">>),
     \* a message without text and without message_id
     [chat |-> [id |-> 100, type |-> "group"]]}

\* update.get('message') when the update carries none
NoMessage == <<>>

\* what update.get('message') may yield.  The payload of an update is read
\* once, at bot.py:162, after the identifier is marked, so it is drawn when
\* it is read.
Payloads == Messages \cup {NoMessage}

\* sequences of update identifiers in increasing order, at most n long
RECURSIVE IncreasingSeqs(_, _)
IncreasingSeqs(ids, n) ==
    IF n = 0 \/ ids = {} THEN {<<>>}
    ELSE {<<>>} \cup
         UNION {{<<i>> \o rest :
                    rest \in IncreasingSeqs({j \in ids : j > i}, n - 1)} :
                i \in ids}

\* the replies getUpdates may give: the platform returns updates in
\* increasing identifier order and may deliver an update again
Batches == IncreasingSeqs(UpdateIds, MaxBatch)

\* the requests the webhook server of app.py handles concurrently
Requests == 1..MaxCalls

(***************************************************************************)
(* State.                                                                  *)
(***************************************************************************)
VARIABLES
    entry,             \* the coroutine the caller runs: "main" (poll.py) or
                       \* "polling" (polling() on a bot that was not set up)
    pc,                \* where the coroutine stands
    proc,              \* the __main__ block of poll.py: "running",
                       \* "wait_closed" (inside cleanup), "exited",
                       \* "cleanup_failed"
    redis,             \* self.redis: "unset", "open" or "closed"
    client,            \* self.client: "unset", "open" or "closed"
    commands,          \* self.commands
    prepareCalls,      \* per position of self.commands, the calls of the
                       \* descriptor's prepare() that have completed
    setup_done,        \* self.__setup
    store,             \* the redis set 'bot:updates'
    processed_status,  \* self.__processed_status
    fetched,           \* the JSON body of the latest getUpdates reply
    batch,             \* updates of the for loop of polling
    idx,               \* position of the for loop in batch
    cmd,               \* position of the for loop over self.commands
    message,           \* the message dict of the update being dispatched
    pending,           \* outcome of process awaiting bot.send_message
    order,             \* identifiers process_update was called with since
                       \* the batch arrived, in call order
    raisedBy,          \* the exception that left the coroutine: "none",
                       \* "not_setup" (bot.py:141), "redis", "transport" or
                       \* "attribute" (AttributeError)
    lastOffset,        \* offset of the latest getUpdates request: {} or {n}
    dispatches,        \* per identifier, calls of process_update that went
                       \* past the membership test (counted up to 2)
    returned,          \* how the latest process_update call ended
    trace,             \* per descriptor offered the message in the latest
                       \* process_update call, what process did
    failedUpdate,      \* identifier of the latest update during whose
                       \* dispatch a descriptor raised: {} or {id}
    sendFailed,        \* identifier of the latest update for which a
                       \* bot.send_message call raised: {} or {id}
    writes,            \* write commands the store executed for the latest
                       \* process_update call
    calls,             \* the POST requests of the webhook server (app.py):
                       \* where each stands and the update it carries
    card,              \* YugiOhCard: the redis keys 'cards' and 'card_cache',
                       \* the cards the image site has an image for, the
                       \* card drawn last and where the handler stands
    cancelledAt,       \* pc at which KeyboardInterrupt arrived, or "none"
    cleanupCalls,      \* calls of bot.cleanup()
    cleanupDone,       \* bot.cleanup() returned
    original,          \* a handler's result before its decorators
    response,          \* the result as the decorators applied so far leave it
    wraps,             \* names of the decorators applied, innermost first
    asked,             \* the message a function is applied to on its own
    outcome,           \* how __send_message(response, asked) ended
    descriptor,        \* the descriptor whose matcher is applied on its own
    matched            \* what __validate_slash_command answered

vars == <<entry, pc, proc, redis, client, commands, prepareCalls, setup_done, store,
          processed_status, fetched, batch, idx, cmd, message, pending, order,
          raisedBy, lastOffset,
          dispatches, returned, trace, failedUpdate, sendFailed, writes,
          calls, card, cancelledAt,
          cleanupCalls, cleanupDone,
          original, response, wraps, asked, outcome, descriptor, matched>>

\* the state of a function applied on its own, outside a dispatch
unitVars == <<original, response, wraps, asked, outcome, descriptor, matched,
              calls, card>>

botVars == <<redis, client, commands, prepareCalls, setup_done, store, processed_status>>

loopVars == <<fetched, batch, idx, cmd, message, pending, order>>

logVars == <<dispatches, returned, trace, failedUpdate, sendFailed, writes>>

cleanupVars == <<proc, cancelledAt, cleanupCalls, cleanupDone>>

\* the pcs at which the coroutine is suspended in an await
AwaitPcs == {"setup_redis", "setup_ids", "get_updates", "sadd", "sadd_reply",
             "send", "sleep"}

\* the identifier of the update the for loop of polling stands at
CurId == batch[idx]

\* no __send_message call has ended
Unsent == [end |-> "unsent", call |-> <<>>]

\* no matcher has answered
Unmatched == [ret |-> "unmatched", message |-> <<>>, error |-> <<>>]

\* nothing is applied on its own
UnitIdle ==
    /\ original = PyFalse
    /\ response = PyFalse
    /\ wraps = <<>>
    /\ asked = NoMessage
    /\ outcome = Unsent
    /\ descriptor = Ping
    /\ matched = Unmatched

\* TelegramBot.__init__ and the persisted set earlier runs left behind
BotInit ==
    /\ entry \in {"main", "polling"}
    /\ pc = entry
    /\ proc = "running"
    /\ redis = "unset"
    /\ client = "unset"
    /\ commands = <<>>
    /\ prepareCalls = <<>>
    /\ setup_done = FALSE
    /\ store \in SUBSET UpdateIds
    /\ processed_status = {}
    /\ fetched = <<>>
    /\ batch = <<>>
    /\ idx = 1
    /\ cmd = 1
    /\ message = NoMessage
    /\ pending = <<>>
    /\ order = <<>>
    /\ raisedBy = "none"
    /\ lastOffset = {}
    /\ dispatches = [i \in UpdateIds |-> 0]
    /\ returned = "none"
    /\ trace = <<>>
    /\ failedUpdate = {}
    /\ sendFailed = {}
    /\ writes = 0
    /\ calls = [r \in Requests |-> [pc |-> "idle", id |-> 0]]
    /\ card = [phase |-> "idle", cards |-> {}, imaged |-> {}, cache |-> {},
               name |-> "None", pass |-> 0]
    /\ cancelledAt = "none"
    /\ cleanupCalls = 0
    /\ cleanupDone = FALSE

\* the bot as poll.py constructs it
Init == BotInit /\ UnitIdle

\* the bot constructed by a __main__ block, on any store
MainInit == Init /\ entry = "main"

\* the event loop runs: first for main(bot), again for bot.cleanup()
LoopRuns == proc \in {"running", "wait_closed"}

\* an exception leaves the coroutine
Raise(kind) == pc' = "raised" /\ raisedBy' = kind

(***************************************************************************)
(* setup.                                                                  *)
(***************************************************************************)
\* main awaits bot.setup(), which awaits aioredis.create_redis
MainStart ==
    /\ LoopRuns /\ pc = "main"
    /\ pc' = "setup_redis"
    /\ UNCHANGED <<unitVars, entry, botVars, loopVars, raisedBy, lastOffset, logVars,
                   cleanupVars>>

\* create_redis returns; get_processed_ids awaits smembers
SetupRedis ==
    /\ LoopRuns /\ pc = "setup_redis"
    /\ redis' = "open"
    /\ pc' = "setup_ids"
    /\ UNCHANGED <<unitVars, entry, client, commands, prepareCalls, setup_done, store,
                   processed_status, loopVars, raisedBy, lastOffset, logVars,
                   cleanupVars>>

\* the prepare() calls setup makes: the ExtensionManager constructs each
\* command (invoke_on_load) and the callback returns ext.obj; nothing calls
\* prepare()
PrepareCallsOfSetup(registry) == [i \in DOMAIN registry |-> 0]

\* smembers returns: the set is hydrated, the session and the commands are
\* created, __setup is set and main goes on to polling()
SetupFinish ==
    /\ LoopRuns /\ pc = "setup_ids" /\ redis = "open"
    /\ processed_status' = store
    /\ client' = "open"
    /\ commands' = Registry
    /\ prepareCalls' = PrepareCallsOfSetup(Registry)
    /\ setup_done' = TRUE
    /\ pc' = "polling"
    /\ UNCHANGED <<unitVars, entry, redis, store, loopVars, raisedBy, lastOffset,
                   logVars, cleanupVars>>

\* create_redis or smembers raises: the exception leaves main
SetupFails ==
    /\ LoopRuns /\ pc \in {"setup_redis", "setup_ids"}
    /\ Raise("redis")
    /\ UNCHANGED <<unitVars, entry, botVars, loopVars, lastOffset, logVars, cleanupVars>>

(***************************************************************************)
(* polling and get_updates.                                                *)
(***************************************************************************)
\* a guard that lets polling start whatever the flag
MayPollAlways(flag) == TRUE

\* the guard of polling: may the loop start
MayPoll(flag) == flag

\* an offset that repeats the largest identifier
RequestOffsetNoIncrement(ids) ==
    IF ids = {} THEN {}
    ELSE {CHOOSE m \in ids : \A i \in ids : i <= m}

\* the offset get_updates sends: none for an empty set
RequestOffset(ids) ==
    IF ids = {} THEN {}
    ELSE {(CHOOSE m \in ids : \A i \in ids : i <= m) + 1}

\* get_updates up to the await of the request; a missing or closed session
\* raises
IssueFetch ==
    IF client = "open"
    THEN /\ pc' = "get_updates"
         /\ lastOffset' = RequestOffset(processed_status)
         /\ UNCHANGED raisedBy
    ELSE /\ Raise("attribute")
         /\ UNCHANGED lastOffset

\* polling() is entered
PollingStart ==
    /\ LoopRuns /\ pc = "polling"
    /\ IF MayPoll(setup_done)
       THEN IssueFetch
       ELSE Raise("not_setup") /\ UNCHANGED lastOffset
    /\ UNCHANGED <<unitVars, entry, botVars, loopVars, logVars, cleanupVars>>

\* a for loop that handles the first update of a batch only
AfterFirstUpdateOnly(b, i) == IF i >= Len(b) \/ i >= 1 THEN "sleep" ELSE "update"

\* where polling goes once the for loop has handled position i of b
AfterUpdate(b, i) == IF i >= Len(b) THEN "sleep" ELSE "update"

\* the position of the for loop after position i
NextIndex(i) == i + 1

\* the request returns a batch
FetchReturns ==
    /\ LoopRuns /\ pc = "get_updates" /\ client = "open"
    \* __request returns the JSON body whatever it says; get_updates
    \* takes its result, or an empty list when it has none
    /\ \E body \in {[ok |-> TRUE, result |-> b] : b \in Batches}
                     \cup {[ok |-> FALSE, error_code |-> 401,
                            description |-> "Unauthorized"]} :
          LET b == IF HasKey(body, "result") THEN body.result ELSE <<>>
          IN  /\ fetched' = body
              /\ batch' = b
              /\ idx' = 1
              /\ pc' = AfterUpdate(b, 0)
    /\ order' = <<>>
    /\ UNCHANGED <<unitVars, entry, botVars, cmd, message, pending, raisedBy,
                   lastOffset, logVars, cleanupVars>>

\* the request raises (timeout, connection error, closed session)
FetchFails ==
    /\ LoopRuns /\ pc = "get_updates"
    /\ Raise("transport")
    /\ UNCHANGED <<unitVars, entry, botVars, loopVars, lastOffset, logVars, cleanupVars>>

\* asyncio.sleep(self._repolling) returns and the next get_updates starts
SleepDone ==
    /\ LoopRuns /\ pc = "sleep"
    /\ IssueFetch
    /\ returned' = "none"
    /\ trace' = <<>>
    /\ message' = NoMessage
    /\ UNCHANGED <<unitVars, entry, botVars, fetched, batch, idx, cmd, pending,
                   order, dispatches, failedUpdate, sendFailed, writes,
                   cleanupVars>>

(***************************************************************************)
(* process_update.                                                         *)
(***************************************************************************)
\* a membership test that never finds the identifier
NeverProcessed(id, ids) == FALSE

\* id in self.__processed_status
AlreadyProcessed(id, ids) == id \in ids

\* a counter of the log, counted up to 2
Bump(n) == IF n < 2 THEN n + 1 ELSE n

\* process_update returns to the for loop of polling
ReturnToLoop(how) ==
    /\ returned' = how
    /\ idx' = NextIndex(idx)
    /\ pc' = AfterUpdate(batch, idx)

\* process_update is called on the next update of the batch: it returns at
\* once for a known identifier, and otherwise awaits redis.sadd
ProcessUpdate ==
    /\ LoopRuns /\ pc = "update"
    /\ trace' = <<>>
    /\ message' = NoMessage
    /\ order' = Append(order, CurId)
    /\ writes' = 0
    /\ IF AlreadyProcessed(CurId, processed_status)
       THEN ReturnToLoop("duplicate")
       ELSE /\ pc' = "sadd"
            /\ returned' = "none"
            /\ idx' = idx
    /\ UNCHANGED <<unitVars, entry, botVars, fetched, batch, cmd, pending, raisedBy,
                   lastOffset, dispatches, failedUpdate, sendFailed,
                   cleanupVars>>

\* the store executes SADD
StoreApplies ==
    /\ LoopRuns /\ pc = "sadd" /\ redis = "open"
    /\ store' = store \cup {CurId}
    /\ writes' = writes + 1
    /\ pc' = "sadd_reply"
    /\ UNCHANGED <<unitVars, entry, redis, client, commands, prepareCalls,
                   setup_done, processed_status, loopVars, raisedBy,
                   lastOffset, dispatches, returned, trace, failedUpdate,
                   sendFailed, cleanupVars>>

\* a process_update that does not mark the identifier in memory
MarkNothing(ids, id) == ids

\* the identifiers in memory once sadd has returned for id
Mark(ids, id) == ids \cup {id}

\* sadd returns: the identifier is marked in memory and the message of the
\* update is read; without a message process_update returns
SaddReturns ==
    /\ LoopRuns /\ pc = "sadd_reply" /\ redis = "open"
    /\ processed_status' = Mark(processed_status, CurId)
    /\ dispatches' = [dispatches EXCEPT ![CurId] = Bump(@)]
    /\ \E m \in Payloads :
          IF DOMAIN m = {}
          THEN /\ ReturnToLoop("no_message")
               /\ UNCHANGED <<cmd, message>>
          ELSE /\ message' = m
               /\ cmd' = 1
               /\ pc' = "command"
               /\ UNCHANGED <<idx, returned>>
    /\ UNCHANGED <<unitVars, entry, redis, client, commands, prepareCalls, setup_done, store, fetched, batch,
                   pending, order, raisedBy, lastOffset, trace, failedUpdate,
                   sendFailed, writes, cleanupVars>>

\* sadd raises, before or after the store executed it: the exception leaves
\* process_update, polling and main
SaddFails ==
    /\ LoopRuns /\ pc \in {"sadd", "sadd_reply"}
    /\ Raise("redis")
    /\ UNCHANGED <<unitVars, entry, botVars, loopVars, lastOffset, logVars, cleanupVars>>

\* a loop over self.commands that an exception of one descriptor ends
NextCommandUnlessRaised(c, e) ==
    IF e.end \in {"raise", "send_failed"} THEN Len(Registry) + 1 ELSE c + 1

\* a loop over self.commands that stops at the first descriptor that matched
NextCommandFirstMatch(c, e) ==
    IF e.matcher = "true" THEN Len(Registry) + 1 ELSE c + 1

\* the descriptor the loop over self.commands goes to after descriptor c,
\* whose process ended as entry e records
NextCommand(c, e) == c + 1

\* the loop over self.commands moves past descriptor cmd, whose process
\* ended as entry e records; after the last descriptor process_update returns
Advance(e) ==
    /\ trace' = Append(trace, e)
    /\ failedUpdate' = IF e.end \in {"raise", "send_failed"}
                       THEN {CurId}
                       ELSE failedUpdate
    /\ sendFailed' = IF e.end = "send_failed" THEN {CurId} ELSE sendFailed
    /\ IF NextCommand(cmd, e) > Len(commands)
       THEN /\ ReturnToLoop("done")
            /\ cmd' = cmd
       ELSE /\ cmd' = NextCommand(cmd, e)
            /\ pc' = "command"
            /\ UNCHANGED <<idx, returned>>

\* command.process(self, message) for the descriptor at cmd, up to the await
\* of bot.send_message or to its end; an exception is logged by
\* process_update
CommandProcess ==
    /\ LoopRuns /\ pc = "command"
    /\ \E o \in process(commands[cmd], message) :
          /\ message' = o.message
          /\ writes' = writes + o.writes
          /\ IF o.end = "send"
             THEN /\ pending' = o
                  /\ pc' = "send"
                  /\ UNCHANGED <<idx, cmd, returned, trace, failedUpdate,
                                 sendFailed>>
             ELSE /\ pending' = <<>>
                  /\ Advance([by |-> cmd, matcher |-> o.matcher,
                              handler |-> o.handler, end |-> o.end,
                              call |-> o.call])
    /\ UNCHANGED <<unitVars, entry, botVars, fetched, batch, order, raisedBy, lastOffset,
                   dispatches, cleanupVars>>

\* what the log records when bot.send_message ended as `how`
SendEntry(how) ==
    [by |-> cmd, matcher |-> pending.matcher, handler |-> pending.handler,
     end |-> how, call |-> pending.call]

\* bot.send_message returns
SendReturns ==
    /\ LoopRuns /\ pc = "send" /\ client = "open"
    /\ Advance(SendEntry("sent"))
    /\ pending' = <<>>
    /\ UNCHANGED <<unitVars, entry, botVars, fetched, batch, message, order, raisedBy,
                   lastOffset, dispatches, writes, cleanupVars>>

\* bot.send_message raises: the exception leaves process and is logged by
\* process_update
SendFails ==
    /\ LoopRuns /\ pc = "send"
    /\ Advance(SendEntry("send_failed"))
    /\ pending' = <<>>
    /\ UNCHANGED <<unitVars, entry, botVars, fetched, batch, message, order, raisedBy,
                   lastOffset, dispatches, writes, cleanupVars>>

(***************************************************************************)
(* The __main__ block of poll.py and cleanup.                              *)
(***************************************************************************)
\* bot.cleanup() up to the await of wait_closed: self.redis.close() raises
\* AttributeError when setup never assigned self.redis
CleanupStart ==
    /\ cleanupCalls' = Bump(cleanupCalls)
    /\ IF redis = "unset"
       THEN proc' = "cleanup_failed" /\ UNCHANGED redis
       ELSE proc' = "wait_closed" /\ redis' = "closed"

\* KeyboardInterrupt leaves run_until_complete while main is suspended; the
\* finally block runs bot.cleanup() on the same loop
Interrupt ==
    /\ entry = "main" /\ proc = "running" /\ pc \in AwaitPcs
    /\ cancelledAt' = pc
    /\ CleanupStart
    /\ UNCHANGED <<unitVars, entry, pc, client, commands, prepareCalls, setup_done, store,
                   processed_status, loopVars, raisedBy, lastOffset, logVars,
                   cleanupDone>>

\* an exception left main: run_until_complete raises it and the finally
\* block runs bot.cleanup()
MainRaised ==
    /\ entry = "main" /\ proc = "running" /\ pc = "raised"
    /\ CleanupStart
    /\ UNCHANGED <<unitVars, entry, pc, client, commands, prepareCalls, setup_done, store,
                   processed_status, loopVars, raisedBy, lastOffset, logVars,
                   cancelledAt, cleanupDone>>

\* wait_closed returns and self.client.close() runs, an AttributeError when
\* setup never assigned self.client; then loop.close()
CleanupFinish ==
    /\ proc = "wait_closed"
    /\ IF client = "unset"
       THEN /\ proc' = "cleanup_failed"
            /\ UNCHANGED <<client, cleanupDone>>
       ELSE /\ proc' = "exited"
            /\ client' = "closed"
            /\ cleanupDone' = TRUE
    /\ UNCHANGED <<unitVars, entry, pc, redis, commands, prepareCalls, setup_done, store,
                   processed_status, loopVars, raisedBy, lastOffset, logVars,
                   cancelledAt, cleanupCalls>>

Next ==
    \/ MainStart
    \/ SetupRedis
    \/ SetupFinish
    \/ SetupFails
    \/ PollingStart
    \/ FetchReturns
    \/ FetchFails
    \/ SleepDone
    \/ ProcessUpdate
    \/ StoreApplies
    \/ SaddReturns
    \/ SaddFails
    \/ CommandProcess
    \/ SendReturns
    \/ SendFails
    \/ Interrupt
    \/ MainRaised
    \/ CleanupFinish

Spec == Init /\ [][Next]_vars

(***************************************************************************)
(* The decorators and __send_message applied on their own: a handler       *)
(* result is wrapped by up to MaxWraps decorators and handed to            *)
(* __send_message.                                                         *)
(***************************************************************************)
\* the variables of the bot and of poll.py
dispatchVars == <<entry, pc, proc, botVars, loopVars, raisedBy, lastOffset,
                  logVars, calls, card, cancelledAt, cleanupCalls,
                  cleanupDone>>

\* the keys the decorators set and __send_message reads
Flags == {"needs_reply", "needs_preview", "markdown"}

\* the dicts that hold some of the flags, each true or false
FlagDicts == UNION {[S -> BOOLEAN] : S \in SUBSET Flags}

\* a dict with the given answer and the given flags
Envelope(answer, flags) ==
    [k \in DOMAIN flags \cup {"answer"} |->
        IF k = "answer" THEN answer ELSE flags[k]]

\* what a handler may return: False, None, a str, bytes or a dict
HandlerResults ==
    {PyFalse, PyNone, PyStr(<<>>), PyStr(<<"pong">>), PyBytes(<<>>),
     PyBytes(<<"pong">>)}
    \cup {PyDict(Envelope(a, f)) : a \in {<<>>, <<"pong">>}, f \in FlagDicts}
    \* dicts without an answer
    \cup {PyDict(f) : f \in FlagDicts}

\* the decorator of the given name applied to the result r of the function
\* it wraps
Decorate(name, r) ==
    CASE name = "reply" -> reply(r)
      [] name = "preview" -> preview(r)
      [] name = "markdown" -> markdown(r)

\* messages to answer: with and without a message_id
AskedMessages ==
    {TextMessage(<<"/", "p", "i", "n", "g">>),
     [chat |-> [id |-> 100, type |-> "group"],
      text |-> <<"/", "p", "i", "n", "g">>]}

EnvelopeInit ==
    /\ BotInit /\ entry = "main" /\ store = {}
    /\ original \in HandlerResults
    /\ response = original
    /\ wraps = <<>>
    /\ asked \in AskedMessages
    /\ outcome = Unsent
    /\ descriptor = Ping
    /\ matched = Unmatched

\* one more decorator around the handler
Wrap(name) ==
    /\ outcome.end = "unsent"
    /\ Len(wraps) < MaxWraps
    /\ response' = Decorate(name, response)
    /\ wraps' = Append(wraps, name)
    /\ UNCHANGED <<dispatchVars, original, asked, outcome, descriptor, matched>>

WrapReply == Wrap("reply")

WrapPreview == Wrap("preview")

WrapMarkdown == Wrap("markdown")

\* Command.process hands the decorated result to __send_message
SendResponse ==
    /\ outcome.end = "unsent"
    /\ outcome' = send_message_call(response, asked)
    /\ UNCHANGED <<dispatchVars, original, response, wraps, asked, descriptor,
                   matched>>

EnvelopeNext ==
    \/ WrapReply
    \/ WrapPreview
    \/ WrapMarkdown
    \/ SendResponse

EnvelopeSpec == EnvelopeInit /\ [][EnvelopeNext]_vars

(***************************************************************************)
(* The slash matcher applied on its own: a text is built from the alias of *)
(* a descriptor and up to MaxTokens tokens, and the matcher is applied.    *)
(***************************************************************************)
\* a subclass of the class of d that sets REQUIRED_PARAMS = True
Requiring(d) == [d EXCEPT !.REQUIRED_PARAMS = TRUE]

\* descriptors declaring no, one and two parameters, with the class
\* attribute REQUIRED_PARAMS as shipped and set
MatcherDescriptors ==
    LET shipped == {FlipTable, SquareMeme, ConvertCurrency}
    IN  shipped \cup {Requiring(d) : d \in shipped}

\* the tokens a user may type after the alias
Tokens == {<<"h", "e", "l", "l", "o">>, <<"w", "o", "r", "l", "d">>}

\* the whitespace between two tokens
Separators == {<<" ">>, <<" ", " ">>}

MatcherInit ==
    /\ BotInit /\ entry = "main" /\ store = {}
    /\ original = PyFalse
    /\ response = PyFalse
    /\ wraps = <<>>
    /\ outcome = Unsent
    /\ descriptor \in MatcherDescriptors
    /\ asked = TextMessage(FirstField(descriptor.SLASH_COMMAND[1]))
    /\ matched = Unmatched

\* the user types one more token
TypeToken ==
    /\ matched.ret = "unmatched"
    /\ Len(Split(asked.text)) - 1 < MaxTokens
    /\ \E sep \in Separators, tok \in Tokens :
          asked' = [asked EXCEPT !.text = @ \o sep \o tok]
    /\ UNCHANGED <<dispatchVars, original, response, wraps, outcome,
                   descriptor, matched>>

\* can_respond hands the text to __validate_slash_command
Match ==
    /\ matched.ret = "unmatched"
    /\ matched' = validate_slash_command(descriptor, asked.text, asked)
    /\ UNCHANGED <<dispatchVars, original, response, wraps, asked, outcome,
                   descriptor>>

MatcherNext ==
    \/ TypeToken
    \/ Match

MatcherSpec == MatcherInit /\ [][MatcherNext]_vars

(***************************************************************************)
(* YugiOhCard on its own: the calls of process_update whose message is     *)
(* '/downloadcards' or '/randomcard', one after the other as polling makes *)
(* them.  Every external call returns.  The event loop resumes the handler *)
(* whenever the call it awaits has returned, hence the weak fairness.      *)
(***************************************************************************)
\* command_downloadcards: when 'cards' is empty it is filled with the card
\* names the wiki lists; imaged are those of them the image site has an
\* image for
command_downloadcards ==
    /\ card.phase \in {"idle", "returned", "raised"}
    /\ IF card.cards = {}
       THEN \E listed \in SUBSET {"Kuriboh", "Exodia", "Jinzo"} \ {{}} :
               \E known \in SUBSET listed :
                   card' = [card EXCEPT !.phase = "returned",
                                        !.cards = listed,
                                        !.imaged = known]
       ELSE card' = [card EXCEPT !.phase = "returned"]
    /\ UNCHANGED <<entry, pc, proc, botVars, loopVars, raisedBy, lastOffset,
                   logVars, calls, cancelledAt, cleanupCalls, cleanupDone,
                   original, response, wraps, asked, outcome, descriptor,
                   matched>>

\* one pass of the while True loop of command_randomcard, the first one
\* when the handler is called.  srandmember draws a card; the image is the
\* cached file id or what _get_image finds (False on a 404); with an image
\* the photo is sent, the file id cached and '' returned, and a reply of
\* send_photo without a result raises KeyError; without an image the loop
\* goes round.  On an empty 'cards' srandmember gives None: hget then
\* raises or, if the client accepts None, the image site answers 404.
\* pass is the parity of the number of passes made.
command_randomcard ==
    /\ IF card.cards = {}
       THEN \E phase \in {"raised", "retry"} :
               card' = [card EXCEPT !.phase = phase, !.name = "None",
                                    !.pass = 1 - @]
       ELSE \E card_name \in card.cards :
               IF card_name \in card.cache \/ card_name \in card.imaged
               THEN \/ card' = [card EXCEPT !.phase = "returned",
                                            !.name = card_name,
                                            !.cache = @ \cup {card_name},
                                            !.pass = 1 - @]
                    \/ card' = [card EXCEPT !.phase = "raised",
                                            !.name = card_name,
                                            !.pass = 1 - @]
               ELSE card' = [card EXCEPT !.phase = "retry",
                                         !.name = card_name,
                                         !.pass = 1 - @]
    /\ UNCHANGED <<entry, pc, proc, botVars, loopVars, raisedBy, lastOffset,
                   logVars, calls, cancelledAt, cleanupCalls, cleanupDone,
                   original, response, wraps, asked, outcome, descriptor,
                   matched>>

CardNext ==
    \/ command_downloadcards
    \/ command_randomcard

CardSpec ==
    /\ MainInit
    /\ [][CardNext]_vars
    /\ WF_vars(CardNext)

(***************************************************************************)
(* The matchers on their own: process_update hands one message dict to     *)
(* the descriptors in registration order, and each can_respond may write   *)
(* on it.  The descriptors are some of those of commands.py, registered in *)
(* any order (the order of the entry points is the installer's).           *)
(***************************************************************************)
offerIdle == <<original, response, wraps, asked, outcome, descriptor, calls,
               card,
               entry, proc, redis, client, prepareCalls, setup_done, store,
               processed_status, fetched, batch, idx, pending, order, raisedBy,
               lastOffset, logVars, cancelledAt, cleanupCalls, cleanupDone>>

\* the descriptors are registered and the message of an update is read
Install ==
    LET classes == {Ping, MessageToGif, Imgur, MagicEightBall, SquareMeme}
        photo(sizes, type) ==
            [message_id |-> 11, chat |-> [id |-> 100, type |-> type],
             photo |-> sizes]
        messages ==
            {
             TextMessage(<<"/", "p", "i", "n", "g">>),
             TextMessage(<<"/", "P", "I", "N", "G">>),
             TextMessage(<<"/", "p", "i", "n", "g", " ", "@", "b", "o", "t", " ", "w", "h", "y", "?">>),
             TextMessage(<<"/", "8", "b", "a", "l", "l", " ", "w", "h", "y">>),
             TextMessage(<<"/", "8", "b", "a", "l", "l", " ", "@", "b", "o", "t", " ", "w", "h", "y", "?">>),
             TextMessage(<<"@", "b", "o", "t", " ", "w", "h", "y", "?">>),
             TextMessage(<<"/", "i", "m", "g", "u", "r", "i", "d", " ", "a", "b", "c">>),
             TextMessage(<<"/", "s", "q", "u", "a", "r", "e", " ", "h", "e", "l", "l", "o", " ", "w", "o", "r", "l", "d">>),
             TextMessage(<<"/", "g", "i", "f", "s">>),
             TextMessage(<<"/", "f", "l", "i", "p", ".", "g", "i", "f">>),
             TextMessage(<<"h", "e", "l", "l", "o">>),
             photo(<<"small">>, "private"),
             photo(<<"small">>, "group"),
             photo(<<>>, "private")}
    IN  /\ pc = "main"
        /\ commands' \in {c \in [1..MaxOffers -> classes] :
                              \A i, j \in 1..MaxOffers :
                                  i # j => c[i] # c[j]}
        /\ message' \in messages
        /\ cmd' = 1
        /\ pc' = "offer"
        /\ UNCHANGED <<offerIdle, matched>>

\* Command.process normalises the text and asks can_respond, which writes
\* on the dict it was given
Offer ==
    /\ pc = "offer" /\ matched.ret = "unmatched"
    /\ LET text == NormalizedText(message)
       IN  matched' = can_respond(commands[cmd], text,
                                  SetKey(message, "text", text))
    /\ message' = matched'.message
    /\ UNCHANGED <<offerIdle, pc, commands, cmd>>

\* the loop of process_update goes to the next descriptor
Proceed ==
    /\ pc = "offer" /\ matched.ret # "unmatched"
    /\ cmd < Len(commands)
    /\ cmd' = cmd + 1
    /\ matched' = Unmatched
    /\ UNCHANGED <<offerIdle, pc, commands, message>>

OfferNext ==
    \/ Install
    \/ Offer
    \/ Proceed

OfferSpec == MainInit /\ [][OfferNext]_vars

(***************************************************************************)
(* The webhook entry point: src/app.py serves POST /telegram and hands     *)
(* each update to process_update of src/bot.py.  The server runs the       *)
(* requests as coroutines of one event loop, so one request runs until it  *)
(* awaits and another may run meanwhile.  The command classes of this      *)
(* variant are not in the source tree; a dispatch is counted, not          *)
(* expanded.                                                               *)
(***************************************************************************)
webhookIdle == <<original, response, wraps, asked, outcome, descriptor,
                 matched, card, entry, proc, commands, prepareCalls, loopVars,
                 raisedBy, lastOffset, returned, trace, failedUpdate,
                 sendFailed, writes, cancelledAt, cleanupCalls, cleanupDone>>

\* after_start: await bot.setup()
Startup ==
    /\ pc = "main"
    /\ redis' = "open"
    /\ processed_status' = store
    /\ client' = "open"
    /\ setup_done' = TRUE
    /\ pc' = "serving"
    /\ UNCHANGED <<webhookIdle, store, dispatches, calls>>

\* TelegramRoute.post calls process_update, which runs up to its first
\* await: the membership test, then the sadd command is issued
Post(r) ==
    /\ pc = "serving" /\ calls[r].pc = "idle"
    /\ \E id \in UpdateIds :
          calls' = [calls EXCEPT ![r] =
                       IF AlreadyProcessed(id, processed_status)
                       THEN [pc |-> "ok", id |-> id]
                       ELSE [pc |-> "sadd", id |-> id]]
    /\ UNCHANGED <<webhookIdle, pc, redis, client, setup_done, store,
                   processed_status, dispatches>>

\* the store executes the sadd of request r
PostStoreApplies(r) ==
    /\ calls[r].pc = "sadd"
    /\ store' = store \cup {calls[r].id}
    /\ calls' = [calls EXCEPT ![r].pc = "sadd_reply"]
    /\ UNCHANGED <<webhookIdle, pc, redis, client, setup_done,
                   processed_status, dispatches>>

\* the await of sadd returns to request r: the identifier is added in
\* memory and the commands start on the message
PostSaddReturns(r) ==
    /\ calls[r].pc = "sadd_reply"
    /\ processed_status' = Mark(processed_status, calls[r].id)
    /\ dispatches' = [dispatches EXCEPT ![calls[r].id] = Bump(@)]
    /\ calls' = [calls EXCEPT ![r].pc = "commands"]
    /\ UNCHANGED <<webhookIdle, pc, redis, client, setup_done, store>>

\* the commands are through; post answers text("ok")
PostReturns(r) ==
    /\ calls[r].pc = "commands"
    /\ calls' = [calls EXCEPT ![r].pc = "ok"]
    /\ UNCHANGED <<webhookIdle, pc, redis, client, setup_done, store,
                   processed_status, dispatches>>

WebhookNext ==
    \/ Startup
    \/ \E r \in Requests : Post(r)
    \/ \E r \in Requests : PostStoreApplies(r)
    \/ \E r \in Requests : PostSaddReturns(r)
    \/ \E r \in Requests : PostReturns(r)

WebhookSpec == MainInit /\ [][WebhookNext]_vars

(***************************************************************************)
(* Properties.                                                             *)
(***************************************************************************)
\* the coroutine steps from the head of the for loop of polling, that is,
\* process_update is called
CallStep == pc = "update" /\ (pc' # "update" \/ idx' # idx)

\* the identifier of the latest process_update call that returned
LastId == batch[idx - 1]

\* the entry records that the descriptor's process raised into process_update
Failed(e) == e.end \in {"raise", "send_failed"}

\* C1: the handlers of an update identifier run at most once over any
\* sequence of process_update calls, and a call whose identifier is already
\* in the Processed-ID set returns at once: no store write, no matcher, no
\* handler, no send.
C1_AtMostOnce ==
    /\ [](\A id \in UpdateIds : dispatches[id] <= 1)
    /\ [][(CallStep /\ CurId \in processed_status) =>
             /\ returned' = "duplicate"
             /\ trace' = <<>>
             /\ pc' \in {"update", "sleep"}
             /\ UNCHANGED <<store, processed_status, dispatches, pending>>]_vars

\* an update dispatched by this process was delivered again and skipped
C1_Witness ==
    /\ returned = "duplicate"
    /\ idx > 1
    /\ dispatches[LastId] = 1

\* C2: the identifier is in the store and then in memory before the first
\* descriptor's process runs, so an update during whose dispatch a
\* descriptor raised is skipped when it is delivered again.
C2_MarkBeforeExecute ==
    /\ [](pc \in {"command", "send"} =>
             CurId \in store /\ CurId \in processed_status)
    /\ [][\A id \in processed_status' \ processed_status : id \in store]_vars
    /\ [][(CallStep /\ CurId \in failedUpdate) =>
             /\ returned' = "duplicate"
             /\ trace' = <<>>
             /\ dispatches' = dispatches]_vars

\* the update whose dispatch saw a descriptor raise came again and was skipped
C2_Witness ==
    /\ returned = "duplicate"
    /\ idx > 1
    /\ LastId \in failedUpdate

\* C3: when the process of one descriptor raises, that descriptor sends
\* nothing, the next descriptor is offered the message, process_update
\* returns normally once all descriptors were offered it, and the polling
\* loop goes on.
C3_HandlerFailureIsolation ==
    /\ [][(Len(trace') > Len(trace) /\ Failed(trace'[Len(trace')])) =>
             /\ pc' \in {"command", "update", "sleep"}
             /\ raisedBy' = "none"
             /\ cmd < Len(Registry) => (pc' = "command" /\ cmd' = cmd + 1)
             /\ cmd = Len(Registry) => returned' = "done"]_vars
    /\ [](returned = "done" =>
             /\ Len(trace) = Len(Registry)
             /\ \A i \in DOMAIN trace : trace[i].by = i)

\* a descriptor raised and a later descriptor answered the same update
C3_Witness ==
    /\ returned = "done"
    /\ \E i, j \in DOMAIN trace :
          i < j /\ Failed(trace[i]) /\ trace[j].end = "sent"

\* C4: an update with a message is offered to every registered descriptor in
\* registration order, and exactly the descriptors whose matcher accepts it
\* have their handler invoked; the loop does not stop at the first match.
C4_EveryMatchingDescriptor ==
    returned = "done" =>
        /\ Len(trace) = Len(Registry)
        /\ \A i \in DOMAIN trace :
              /\ trace[i].by = i
              /\ (trace[i].handler # "none") <=>
                    (can_respond(Registry[i], NormalizedText(message),
                                 message).ret = "true")

\* one update got two responses
C4_Witness ==
    /\ returned = "done"
    /\ \E i, j \in DOMAIN trace :
          i < j /\ trace[i].end = "sent" /\ trace[j].end = "sent"

\* C5: when the matcher of a descriptor raises a validation failure, the
\* handler does not run, bot.send_message is called with the failure's
\* message for the chat of the message, and the later descriptors are still
\* offered the message.
C5_ValidationFailureAnswered ==
    /\ \A i \in DOMAIN trace :
          LET v == validate_slash_command(Registry[trace[i].by],
                                          NormalizedText(message), message)
          IN  v.ret = "validation" =>
                 /\ trace[i].matcher = "validation"
                 /\ trace[i].handler = "none"
                 /\ trace[i].end \in {"sent", "send_failed"}
                 /\ trace[i].call.chat_id = message.chat.id
                 /\ trace[i].call.text = v.error
    /\ returned = "done" => Len(trace) = Len(Registry)

\* a validation message was sent and later descriptors were offered the update
C5_Witness ==
    /\ returned = "done"
    /\ \E i \in DOMAIN trace :
          /\ i < Len(trace)
          /\ trace[i].matcher = "validation"
          /\ trace[i].end = "sent"

\* C6: every getUpdates request carries offset = largest processed
\* identifier + 1, or no offset when nothing is processed; after {3, 5, 7}
\* it is 8; the offset exceeds every processed identifier and never
\* decreases from one request to the next.
C6_OffsetRule ==
    /\ [](pc = "get_updates" =>
             /\ processed_status = {} => lastOffset = {}
             /\ processed_status # {} =>
                   \E n \in processed_status :
                      /\ lastOffset = {n + 1}
                      /\ \A i \in processed_status : i <= n
             /\ processed_status = {3, 5, 7} => lastOffset = {8}
             /\ \A o \in lastOffset : \A i \in processed_status : o > i)
    /\ [][\A a \in lastOffset :
             lastOffset' # {} /\ \A b \in lastOffset' : b >= a]_vars

\* the request after this process dispatched 3, 5 and 7 asks for offset 8
C6_Witness ==
    /\ pc = "get_updates"
    /\ processed_status = {3, 5, 7}
    /\ lastOffset = {8}
    /\ \A id \in {3, 5, 7} : dispatches[id] = 1

\* C7: the updates of a batch are handed to process_update one at a time in
\* the order of the batch, a call starting only when the one before has
\* returned, and the next request is issued only after the whole batch was
\* dispatched and the sleep has ended.
C7_SequentialBatch ==
    /\ [](pc \in {"update", "sadd", "sadd_reply", "command", "send", "sleep"} =>
             /\ Len(order) <= Len(batch)
             /\ order = SubSeq(batch, 1, Len(order))
             /\ pc = "sleep" => order = batch
             /\ pc = "update" => Len(order) = idx - 1
             /\ pc \in {"sadd", "sadd_reply", "command", "send"} =>
                   Len(order) = idx)
    /\ [][order' # order =>
             \/ pc = "get_updates" /\ order' = <<>>
             \/ pc = "update" /\ order' = Append(order, CurId)]_vars
    /\ [][(pc' = "get_updates" /\ pc # "get_updates") =>
             \/ pc = "polling"
             \/ pc = "sleep" /\ order = batch]_vars

\* a batch of two unseen updates was dispatched in order and the loop sleeps
C7_Witness ==
    /\ pc = "sleep"
    /\ Len(batch) >= 2
    /\ order = batch
    /\ \A i \in DOMAIN batch : dispatches[batch[i]] = 1

\* C8: polling() on a bot that was not set up raises the usage error at
\* once: no request is issued, no update is dispatched, the Processed-ID set
\* and the store stay as they were.
C8_PollingBeforeSetup ==
    /\ [][(pc = "polling" /\ ~setup_done /\ pc' # pc) =>
             /\ pc' = "raised"
             /\ raisedBy' = "not_setup"
             /\ UNCHANGED <<store, processed_status, lastOffset, batch, order,
                            trace, dispatches>>]_vars
    /\ [](entry = "polling" =>
             /\ pc \in {"polling", "raised"}
             /\ lastOffset = {}
             /\ order = <<>>
             /\ processed_status = {})
    /\ [][entry = "polling" => store' = store]_vars

\* polling() raised on a bot that was not set up, the store holding identifiers
C8_Witness ==
    /\ entry = "polling"
    /\ pc = "raised"
    /\ raisedBy = "not_setup"
    /\ store # {}

\* C9: once polling has started after setup, the loop stops only through
\* external cancellation: never because a request, the sadd that marks an
\* update or a handler failed.
C9_LoopStopsOnlyByCancellation ==
    (entry = "main" /\ setup_done /\ pc = "raised") => cancelledAt # "none"

\* C10: after external cancellation, whenever it arrives, bot.cleanup() runs
\* exactly once and completes.
C10_CleanupRunsOnceAndCompletes ==
    cancelledAt # "none" => (cleanupCalls = 1 /\ proc # "cleanup_failed")

\* what can_respond of the descriptor at cmd answers for the message being
\* dispatched, with the message as the handler would receive it
Offered ==
    LET text == NormalizedText(message)
    IN  can_respond(commands[cmd], text, SetKey(message, "text", text))

\* C11: the handler of a descriptor never observes a command or args value
\* written by the matcher of another descriptor (a matcher writes only keys
\* of its own _commands, so a command the handler can read is one of its
\* descriptor's aliases), and the first descriptor offered an update finds
\* no command or args left by the dispatch of another update.
C11_MatchFieldsDoNotLeak ==
    pc = "command" =>
        /\ cmd = 1 => ~HasKey(message, "command") /\ ~HasKey(message, "args")
        /\ (Offered.ret = "true" /\ HasKey(Offered.message, "command")) =>
               CommandsHas(commands[cmd], Offered.message.command)

\* the envelope __send_message reads from a result: a bare str or bytes
\* becomes the answer, an absent flag is false
FinalEnvelope(r) ==
    LET env == CASE r.t = "str" -> [answer |-> r.v]
                 [] r.t = "bytes" -> [answer |-> DecodeUtf8(r.v)]
                 [] OTHER -> r.v
    IN  IF r.t \in {"str", "bytes", "dict"}
        THEN [answer |-> IF HasKey(env, "answer") THEN {env.answer} ELSE {},
              needs_reply |-> GetFlag(env, "needs_reply"),
              needs_preview |-> GetFlag(env, "needs_preview"),
              markdown |-> GetFlag(env, "markdown")]
        ELSE r

\* C12: reply, preview and markdown commute: for every handler result and
\* every two of them, wrapping in either order gives the same final
\* envelope; "pong" under reply and markdown gives answer "pong", needs_reply
\* and markdown true, needs_preview false.
C12_DecoratorsCommute ==
    Len(wraps) = 2 =>
        /\ FinalEnvelope(response) =
              FinalEnvelope(Decorate(wraps[1], Decorate(wraps[2], original)))
        /\ (original = PyStr(<<"pong">>)
               /\ {wraps[1], wraps[2]} = {"reply", "markdown"}) =>
              FinalEnvelope(response) =
                 [answer |-> {<<"pong">>}, needs_reply |-> TRUE,
                  needs_preview |-> FALSE, markdown |-> TRUE]

\* the form the descriptor applied on its own declares
DeclaredForm == descriptor.SLASH_COMMAND[1]

\* the tokens of the text after the alias
Supplied == Tail(Split(asked.text))

\* the number of arguments the tokens of the text count as: one when the
\* form declares one parameter and several tokens follow
SuppliedCount ==
    IF Len(SlashArgs(DeclaredForm)) = 1 /\ Len(Supplied) > 1
    THEN 1
    ELSE Len(Supplied)

\* C13: for a descriptor that requires the exact parameter count, a form
\* declaring n > 0 parameters and a text supplying another number of tokens
\* (after the single-parameter collapse) make the matcher raise a validation
\* failure whose message contains the full form, with command and args not
\* set on the message; a form declaring no parameter never raises it.
C13_ArityRule ==
    matched.ret # "unmatched" =>
        LET n == Len(SlashArgs(DeclaredForm))
        IN  /\ (descriptor.REQUIRED_PARAMS /\ n > 0 /\ SuppliedCount # n) =>
                  /\ matched.ret = "validation"
                  /\ Contains(matched.error, DeclaredForm)
                  /\ ~HasKey(matched.message, "command")
                  /\ ~HasKey(matched.message, "args")
            /\ n = 0 => matched.ret # "validation"

\* '/convert hello' on a descriptor that requires both parameters
C13_Witness ==
    /\ descriptor = Requiring(ConvertCurrency)
    /\ Len(Supplied) = 1
    /\ matched.ret = "validation"

\* the text '/convert 10'
ConvertTen == <<"/", "c", "o", "n", "v", "e", "r", "t", " ", "1", "0">>

\* C14: the descriptor of '/convert [value] [symbol]' enforces arity: for
\* the text '/convert 10' its matcher raises the validation failure, a
\* message naming '/convert [value] [symbol]' goes to the chat and the
\* conversion handler does not run.
C14_ConvertEnforcesArity ==
    \A i \in DOMAIN trace :
        (commands[trace[i].by] = ConvertCurrency
            /\ NormalizedText(message) = ConvertTen) =>
           /\ trace[i].matcher = "validation"
           /\ trace[i].handler = "none"
           /\ trace[i].end \in {"sent", "send_failed"}
           /\ Contains(trace[i].call.text, ConvertCurrency.SLASH_COMMAND[1])

\* the text '/square hello world'
SquareHelloWorld ==
    <<"/", "s", "q", "u", "a", "r", "e", " ", "h", "e", "l", "l", "o", " ", "w", "o", "r", "l", "d">>

\* C15: when the matched form declares exactly one parameter and several
\* tokens follow the alias, the tokens are rejoined in order into the one
\* value of that parameter ('/square hello world' gives args = {text:
\* "hello world"}); when the form declares two or more parameters each
\* bound value is a single token.
C15_CollapsingRule ==
    matched.ret = "true" =>
        LET names == SlashArgs(DeclaredForm)
            args == matched.message.args
            bound == IF Len(names) < Len(Supplied)
                     THEN Len(names)
                     ELSE Len(Supplied)
        IN  /\ (Len(names) = 1 /\ Len(Supplied) > 1) =>
                  /\ DOMAIN args = {names[1]}
                  /\ args[names[1]] = JoinSpace(Supplied)
                  /\ Split(args[names[1]]) = Supplied
            /\ (descriptor.name = "SquareMeme"
                   /\ asked.text = SquareHelloWorld) =>
                  args = [k \in {<<"t", "e", "x", "t">>} |->
                             <<"h", "e", "l", "l", "o", " ", "w", "o", "r", "l", "d">>]
            /\ Len(names) >= 2 =>
                  /\ DOMAIN args = {names[i] : i \in 1..bound}
                  /\ \A i \in 1..bound : args[names[i]] = Supplied[i]

\* '/square hello world' matched, the two tokens bound as one value
C15_Witness ==
    /\ descriptor = SquareMeme
    /\ asked.text = SquareHelloWorld
    /\ matched.ret = "true"
    /\ Len(Supplied) = 2
    /\ Len(matched.message.args[<<"t", "e", "x", "t">>]) = 11

\* the dict env holds the flag k and it is true
FlagSet(env, k) == HasKey(env, k) /\ env[k]

\* C16: a bare str or bytes result is sent with no reply target, preview
\* false and markdown false; for a dict result send_message receives a reply
\* target, the message_id of the message, if and only if needs_reply is true
\* and the message carries a message_id, and it receives preview and
\* markdown equal to the flags needs_preview and markdown of the dict, false
\* when absent.
C16_SendPath ==
    outcome.end = "send" =>
        /\ response.t \in {"str", "bytes"} =>
               /\ outcome.call.in_reply_to = {}
               /\ outcome.call.preview = FALSE
               /\ outcome.call.markdown = FALSE
               /\ outcome.call.text = response.v
        /\ response.t = "dict" =>
               /\ outcome.call.in_reply_to # {} <=>
                     (FlagSet(response.v, "needs_reply")
                         /\ HasKey(asked, "message_id"))
               /\ \A id \in outcome.call.in_reply_to : id = asked.message_id
               /\ outcome.call.preview = FlagSet(response.v, "needs_preview")
               /\ outcome.call.markdown = FlagSet(response.v, "markdown")
               /\ outcome.call.text = response.v.answer
        /\ outcome.call.chat_id = asked.chat.id

\* a dict asking for a reply and a preview was sent as a reply to the message
C16_Witness ==
    /\ outcome.end = "send"
    /\ response.t = "dict"
    /\ HasKey(asked, "message_id")
    /\ outcome.call.in_reply_to = {asked.message_id}
    /\ outcome.call.preview
    /\ ~outcome.call.markdown

\* the result holds nothing to say: False, None, an empty str or bytes, a
\* dict whose answer is empty or that has no answer
Answerless(r) ==
    \/ r.t \in {"False", "None"}
    \/ r.t \in {"str", "bytes"} /\ r.v = <<>>
    \/ r.t = "dict" /\ (~HasKey(r.v, "answer") \/ r.v.answer = <<>>)

\* C17: a handler result that is False, an empty string, a dict whose answer
\* is empty, or a value with no answer never leads to a send_message call,
\* whatever flags it holds and whatever decorators wrap the handler.
C17_NothingToSend ==
    Answerless(original) =>
        /\ outcome.end \in {"unsent", "return", "raise"}
        /\ outcome.call = <<>>

\* __send_message returned without sending for a dict with an empty answer
\* and needs_reply set, the handler being decorated
C17_Witness ==
    /\ original.t = "dict"
    /\ HasKey(original.v, "answer")
    /\ original.v.answer = <<>>
    /\ FlagSet(original.v, "needs_reply")
    /\ wraps # <<>>
    /\ outcome.end = "return"

\* a process_update call has had its sadd executed by the store and has not
\* marked the identifier in memory: the reply is awaited, or sadd raised
Unmarked ==
    IF /\ idx \in DOMAIN batch
       /\ \/ pc = "sadd_reply"
          \/ pc = "raised" /\ raisedBy = "redis"
    THEN {CurId}
    ELSE {}

\* C18 as stated: in every reachable state the in-memory set is a subset of
\* the persisted set, and the two are equal whenever no process_update call
\* is between its persist step and its mark step.
C18_LedgerAsStated ==
    /\ processed_status \subseteq store
    /\ pc # "sadd_reply" => processed_status = store

\* C18 amended: the in-memory set is always a subset of the persisted set;
\* once setup has hydrated it the two differ at most by the identifier of a
\* process_update call whose sadd the store executed and which has not
\* marked it in memory (not yet, or never because sadd raised); every
\* identifier whose handlers have started is in both; no identifier is ever
\* removed from either.
C18_Ledger ==
    /\ [](processed_status \subseteq store)
    /\ [](setup_done => (store \ processed_status) \subseteq Unmarked)
    /\ [](pc \in {"command", "send"} =>
             CurId \in store /\ CurId \in processed_status)
    /\ [](\A id \in UpdateIds :
             dispatches[id] >= 1 => id \in store /\ id \in processed_status)
    /\ [][/\ store \subseteq store'
          /\ processed_status \subseteq processed_status']_vars

\* a second identifier went through persist and mark: its handlers run and
\* the two sets are equal
C18_Witness ==
    /\ pc = "command"
    /\ dispatches[CurId] = 1
    /\ processed_status = store
    /\ \E id \in store : id # CurId /\ dispatches[id] = 1

\* bot.send_message raises for the response of the descriptor at cmd
SendFailure ==
    /\ pc = "send"
    /\ Len(trace') = Len(trace) + 1
    /\ trace'[Len(trace')].end = "send_failed"

\* C19: when sending the response of one descriptor fails, the update
\* identifier stays in the in-memory set and in the store, the remaining
\* descriptors are still offered the update, and the update is not
\* dispatched again when a later poll delivers it.
C19_SendFailureKeepsMark ==
    /\ [][SendFailure =>
             /\ store' = store /\ CurId \in store
             /\ processed_status' = processed_status
             /\ CurId \in processed_status
             /\ raisedBy' = "none"
             /\ cmd < Len(commands) => (pc' = "command" /\ cmd' = cmd + 1)
             /\ cmd = Len(commands) => returned' = "done"]_vars
    /\ [](\A id \in sendFailed : id \in store /\ id \in processed_status)
    /\ []((returned = "done" /\ LastId \in sendFailed) =>
             Len(trace) = Len(commands))
    /\ [][(CallStep /\ CurId \in sendFailed) =>
             /\ returned' = "duplicate"
             /\ trace' = <<>>
             /\ dispatches' = dispatches]_vars

\* the update for which a send failed was delivered again and skipped
C19_Witness ==
    /\ returned = "duplicate"
    /\ idx > 1
    /\ LastId \in sendFailed
    /\ dispatches[LastId] = 1

\* C20: during setup the prepare() hook of each descriptor is invoked
\* exactly once before the descriptor is registered, so no update is
\* dispatched to a descriptor whose prepare() has not completed.
C20_PreparedBeforeDispatch ==
    /\ \A i \in DOMAIN commands : prepareCalls[i] = 1
    /\ pc \in {"command", "send"} => prepareCalls[cmd] = 1

\* the matcher of every registered descriptor declines the current message
NoneAccepts ==
    LET text == NormalizedText(message)
    IN  \A i \in DOMAIN commands :
            can_respond(commands[i], text,
                        SetKey(message, "text", text)).ret = "false"

\* C21: for an unseen update whose message text is accepted by no
\* descriptor, dispatch issues no bot.send_message call and the store
\* executes exactly one write, the marking of the identifier.
C21_UnmatchedIsSilent ==
    /\ (pc \in {"command", "send"} /\ NoneAccepts) =>
           /\ pc # "send"
           /\ writes = 1
           /\ \A i \in DOMAIN trace : trace[i].matcher = "false"
    /\ (returned = "done" /\ NoneAccepts) =>
           /\ writes = 1
           /\ Len(trace) = Len(commands)
           /\ \A i \in DOMAIN trace :
                  /\ trace[i].matcher = "false"
                  /\ trace[i].handler = "none"
                  /\ trace[i].end = "return"
                  /\ trace[i].call = <<>>

\* an update that no descriptor accepted went through the whole registry
C21_Witness ==
    /\ returned = "done"
    /\ idx > 1
    /\ NoneAccepts
    /\ "text" \in DOMAIN message
    /\ Len(trace) = Len(commands)
    /\ writes = 1
    /\ dispatches[LastId] = 1
    /\ LastId \in store

\* C22: when two process_update invocations for the same update
\* identifier overlap (the webhook receives a redelivery while the first
\* call is suspended in the store write that marks the identifier), the
\* handlers of that identifier are still executed at most once.
C22_AtMostOnceUnderInterleaving ==
    \A id \in UpdateIds : dispatches[id] <= 1

\* C23: external cancellation takes effect only between loop iterations:
\* when it arrives while a batch is being dispatched, the dispatch of the
\* batch (the persist-then-mark step of the update in progress and its
\* handlers included) finishes before cleanup closes the store and
\* transport connections.
C23_CancellationBetweenIterations ==
    (cancelledAt \in {"sadd", "sadd_reply", "send"} /\ redis = "closed") =>
        pc \notin {"update", "sadd", "sadd_reply", "command", "send"}

\* C24: whenever a matcher (can_respond of Command in regex or in slash
\* mode, and the overrides of MessageToGif and Imgur) returns false, the
\* command, args and result fields of the message are as they were before
\* the call.
C24_DeclineLeavesFields ==
    [][(pc = "offer" /\ matched.ret = "unmatched" /\ matched'.ret = "false") =>
          \A k \in {"command", "args", "result"} :
              /\ HasKey(message', k) <=> HasKey(message, k)
              /\ HasKey(message, k) => message'[k] = message[k]]_vars

\* the third descriptor declined a message on which the two before it had
\* written command, args and result
C24_Witness ==
    /\ pc = "offer"
    /\ cmd = 3
    /\ matched.ret = "false"
    /\ HasKey(message, "command")
    /\ HasKey(message, "args")
    /\ HasKey(message, "result")

\* C25: reply, preview and markdown have the same shape: a falsy result
\* passes unchanged, a truthy envelope gets the decorator's own flag set
\* to true, and a truthy bare string or bare byte sequence is wrapped into
\* an envelope that carries the text and only the decorator's own flag.
C25_DecoratorsSameShape ==
    Len(wraps) = 1 =>
        LET own == CASE wraps[1] = "reply" -> "needs_reply"
                     [] wraps[1] = "preview" -> "needs_preview"
                     [] wraps[1] = "markdown" -> "markdown"
        IN  /\ ~Truthy(original) => response = original
            /\ (Truthy(original) /\ original.t = "dict") =>
                   response = PyDict(SetKey(original.v, own, TRUE))
            /\ (Truthy(original) /\ original.t \in {"str", "bytes"}) =>
                   /\ response.t = "dict"
                   /\ DOMAIN response.v = {"answer", own}
                   /\ response.v[own] = TRUE
                   /\ response.v.answer =
                          IF original.t = "bytes"
                          THEN DecodeUtf8(original.v)
                          ELSE original.v

\* C26: a process started on a store that an earlier process wrote has,
\* once setup is through, an in-memory set equal to the persisted set; an
\* identifier the earlier process marked is never dispatched by the new
\* one; and the first request for updates carries the largest persisted
\* identifier plus one as its offset.
C26_RestartResumes ==
    /\ [][(pc = "setup_ids" /\ pc' = "polling") =>
             /\ processed_status' = store
             /\ store' = store]_vars
    /\ [](~setup_done => \A id \in UpdateIds : dispatches[id] = 0)
    /\ [][\A id \in UpdateIds :
             (setup_done /\ id \in processed_status /\ dispatches[id] = 0) =>
                 dispatches'[id] = 0]_vars
    /\ [][(pc = "polling" /\ pc' = "get_updates") =>
             /\ store = {} => lastOffset' = {}
             /\ store # {} =>
                   \E n \in store :
                      /\ \A i \in store : i <= n
                      /\ lastOffset' = {n + 1}]_vars

\* an identifier marked by an earlier process was delivered to this one,
\* which had asked for a later offset, and was skipped
C26_Witness ==
    /\ returned = "duplicate"
    /\ idx > 1
    /\ dispatches[LastId] = 0
    /\ LastId \in store
    /\ \E o \in lastOffset : o > LastId

\* C27: an unseen update that carries no message is marked, in the store
\* and in memory, and its dispatch stops there: no matcher, no handler and
\* no send call runs for it.
C27_NoPayloadMarksAndStops ==
    /\ [][(pc = "sadd_reply" /\ returned' = "no_message") =>
             /\ CurId \notin processed_status
             /\ CurId \in store'
             /\ CurId \in processed_status'
             /\ trace' = <<>>
             /\ message' = NoMessage
             /\ writes' = 1
             /\ pc' \in {"update", "sleep"}]_vars
    /\ [](returned = "no_message" =>
             /\ pc \notin {"sadd", "sadd_reply", "command", "send"}
             /\ trace = <<>>
             /\ writes = 1)

\* process_update returned for an update without a message
C27_Witness ==
    /\ returned = "no_message"
    /\ idx > 1
    /\ LastId \in store
    /\ LastId \in processed_status
    /\ message = NoMessage
    /\ trace = <<>>

\* C28: an error the platform reports in the reply to a transport call is
\* surfaced to the caller as a failure: when getUpdates is answered with
\* an error payload that has no result, get_updates reports a failure and
\* does not return an empty batch that the polling loop takes for "no new
\* updates".
C28_PlatformErrorSurfaces ==
    [][(pc = "get_updates" /\ fetched' # fetched
           /\ HasKey(fetched', "ok") /\ ~fetched'.ok) =>
          /\ pc' = "raised"
          /\ raisedBy' # "none"]_vars

\* C29: every process_update call eventually returns, provided every
\* external call (store, transport, third-party HTTP) returns: no handler
\* keeps control forever, the random-card handler included, which retries
\* until a card image is found.
C29_ProcessUpdateReturns ==
    (card.phase = "retry") ~> (card.phase \in {"returned", "raised"})

\* C30: every declared slash form is reachable: a text made of '/', the
\* alias of a form of a descriptor in any letter case and as many tokens as
\* the form declares parameters makes that descriptor's matcher return
\* true with command set to the lower-cased alias; descriptors that also
\* declare a REGEX, as '/8ball [question]' of MagicEightBall, included.
C30_SlashFormsReachable ==
    (pc = "offer" /\ matched.ret # "unmatched") =>
        LET d == commands[cmd]
            fields == Split(message.text)
        IN  \A i \in DOMAIN d.SLASH_COMMAND :
                (/\ Len(fields) > 0
                 /\ Lower(fields[1]) = FirstField(d.SLASH_COMMAND[i])
                 /\ Len(fields) - 1 = Len(SlashArgs(d.SLASH_COMMAND[i]))) =>
                    /\ matched.ret = "true"
                    /\ HasKey(message, "command")
                    /\ message.command = FormAlias(d.SLASH_COMMAND[i])

====
